---- MODULE Spec2Model ----
(***************************************************************************)
(* Model of homework.py: a poller that asks a status endpoint for the      *)
(* review records of a homework, tracks the last seen status in the global *)
(* status_homework and reports changes and failures through a Telegram     *)
(* bot.  One behaviour of the model is one run of main().                  *)
(*                                                                         *)
(* Python values are modelled as follows.  A dict is a TLA+ function whose *)
(* DOMAIN is the dict's key set.  A JSON value of unknown shape is a       *)
(* record [type, val] (type is the Python type name).  Texts are tuples of *)
(* strings, so that a formatted text keeps the parts it was built from.    *)
(***************************************************************************)
EXTENDS Integers, Sequences, FiniteSets, TLC

(* ---------------------------- bounds ----------------------------------- *)
\* longest `homeworks` list the server returns
MaxBatch == 2
\* longest `homeworks` list in the runs checked for progress (FairSpec)
LiveBatch == 1
\* largest unix time the clock or the server's current_date shows
MaxDate == 1

(* ---------------------------- values ----------------------------------- *)
\* Python None as a message / as the text of "no exception"
NoneMsg == <<"None">>
NoErr == <<>>
\* Python None as status_homework (line 29); never a key of HOMEWORK_VERDICTS
NoneStatus == "<None>"
\* os.getenv of a variable that is not set
Unset == "<unset>"
\* a local of main() that is not assigned yet
Unassigned == -1

HOMEWORK_VERDICTS ==
    [approved |-> "reviewer liked everything",
     reviewing |-> "taken for review",
     rejected |-> "reviewer has remarks"]

\* statuses the server may put in a record: the three known ones and one other
Statuses == {"approved", "reviewing", "rejected", "archived"}
Names == {"proj1"}

\* the records of a `homeworks` list: dicts with or without the two keys read
Records ==
    {[homework_name |-> n, status |-> s] : n \in Names, s \in Statuses}
        \cup {[homework_name |-> n] : n \in Names}
        \cup {[status |-> "approved"]}

RECURSIVE SeqsUpTo(_, _)
SeqsUpTo(S, n) ==
    IF n = 0 THEN {<<>>}
    ELSE LET shorter == SeqsUpTo(S, n - 1)
         IN  shorter \cup {Append(q, x) : q \in {r \in shorter : Len(r) = n - 1}, x \in S}

Dates == 0..MaxDate

\* values found under the key `homeworks`: a list of at most n records, or
\* not a list
HomeworksValues(n) ==
    {[type |-> "list", val |-> b] : b \in SeqsUpTo(Records, n)}
        \cup {[type |-> "str", val |-> <<>>], [type |-> "NoneType", val |-> <<>>]}

\* dicts the endpoint answers with; the key `code` stands for any other key
\* (the endpoint's error bodies carry it)
ResponseDicts(n) ==
    {[homeworks |-> h, current_date |-> d] : h \in HomeworksValues(n), d \in Dates}
        \cup {[homeworks |-> h] : h \in HomeworksValues(n)}
        \cup {[current_date |-> d] : d \in Dates}
        \cup {[current_date |-> d, code |-> "x"] : d \in Dates}
        \cup {[code |-> "x"]}
        \cup {<<>>}

\* what response.json() may return: a dict, or a JSON value of another type
\* (truthy: whether Python's bool() of the value is True)
PayloadsOf(n) ==
    {[type |-> "dict", truthy |-> DOMAIN d # {}, val |-> d] : d \in ResponseDicts(n)}
        \cup {[type |-> t, truthy |-> b, val |-> <<>>] :
                t \in {"list", "int"}, b \in BOOLEAN}
        \cup {[type |-> "NoneType", truthy |-> FALSE, val |-> <<>>]}
Payloads == PayloadsOf(MaxBatch)
LivePayloads == PayloadsOf(LiveBatch)

\* texts of the APIException raised by get_api_answer (lines 72-84)
FetchErrors ==
    {<<"Endpoint unavailable. Response code", "500">>,
     <<"Request to the endpoint failed", "timeout">>}

(* ------------------------- pure functions ------------------------------ *)
\* check_tokens with any() for all()
check_tokens_any(toks) == \E k \in DOMAIN toks : toks[k] \notin {Unset, ""}

\* check_tokens (lines 51-54): all() of the three values; None and '' are falsy
check_tokens(toks) == \A k \in DOMAIN toks : toks[k] \notin {Unset, ""}

\* check_response that also demands the key current_date
check_response_date(response) ==
    IF response.type # "dict"
    THEN [err |-> <<"TypeError", "API answer is not a dict">>, val |-> <<>>]
    ELSE IF "homeworks" \notin DOMAIN response.val
    THEN [err |-> <<"KeyError", "key homeworks is missing in the API answer">>,
          val |-> <<>>]
    ELSE IF response.val["homeworks"].type # "list"
    THEN [err |-> <<"TypeError", "value under key homeworks is not a list">>,
          val |-> <<>>]
    ELSE IF "current_date" \notin DOMAIN response.val
    THEN [err |-> <<"KeyError", "key current_date is missing in the API answer">>,
          val |-> <<>>]
    ELSE [err |-> NoErr, val |-> response.val["homeworks"].val]

\* check_response (lines 87-101): the text of the exception raised (NoErr if
\* none) and the list returned
check_response(response) ==
    IF response.type # "dict"
    THEN [err |-> <<"TypeError", "API answer is not a dict">>, val |-> <<>>]
    ELSE IF "homeworks" \notin DOMAIN response.val
    THEN [err |-> <<"KeyError", "key homeworks is missing in the API answer">>,
          val |-> <<>>]
    ELSE IF response.val["homeworks"].type # "list"
    THEN [err |-> <<"TypeError", "value under key homeworks is not a list">>,
          val |-> <<>>]
    ELSE [err |-> NoErr, val |-> response.val["homeworks"].val]

\* parse_status without the comparison of line 124
parse_status_always(homework, tracked) ==
    IF "homework_name" \notin DOMAIN homework
    THEN [err |-> <<"KeyError", "key homework_name is missing">>,
          msg |-> NoneMsg, tracked |-> tracked]
    ELSE IF "status" \notin DOMAIN homework
    THEN [err |-> <<"KeyError", "key status is missing">>,
          msg |-> NoneMsg, tracked |-> tracked]
    ELSE IF homework["status"] \notin DOMAIN HOMEWORK_VERDICTS
    THEN [err |-> <<"ValueError", "unexpected status", homework["status"]>>,
          msg |-> NoneMsg, tracked |-> tracked]
    ELSE [err |-> NoErr,
          msg |-> <<"Status changed", homework["homework_name"],
                    HOMEWORK_VERDICTS[homework["status"]]>>,
          tracked |-> homework["status"]]

\* parse_status with the assignment of line 128 moved before the check of
\* line 118
parse_status_early(homework, tracked) ==
    IF "homework_name" \notin DOMAIN homework
    THEN [err |-> <<"KeyError", "key homework_name is missing">>,
          msg |-> NoneMsg, tracked |-> tracked]
    ELSE IF "status" \notin DOMAIN homework
    THEN [err |-> <<"KeyError", "key status is missing">>,
          msg |-> NoneMsg, tracked |-> tracked]
    ELSE IF homework["status"] \notin DOMAIN HOMEWORK_VERDICTS
    THEN [err |-> <<"ValueError", "unexpected status", homework["status"]>>,
          msg |-> NoneMsg, tracked |-> homework["status"]]
    ELSE IF tracked = homework["status"]
    THEN [err |-> NoErr, msg |-> NoneMsg, tracked |-> tracked]
    ELSE [err |-> NoErr,
          msg |-> <<"Status changed", homework["homework_name"],
                    HOMEWORK_VERDICTS[homework["status"]]>>,
          tracked |-> homework["status"]]

\* parse_status (lines 104-130) called with status_homework = tracked: the
\* text of the exception raised (NoErr if none), the value returned and the
\* value of status_homework after the call
parse_status(homework, tracked) ==
    IF "homework_name" \notin DOMAIN homework
    THEN [err |-> <<"KeyError", "key homework_name is missing">>,
          msg |-> NoneMsg, tracked |-> tracked]
    ELSE IF "status" \notin DOMAIN homework
    THEN [err |-> <<"KeyError", "key status is missing">>,
          msg |-> NoneMsg, tracked |-> tracked]
    ELSE IF homework["status"] \notin DOMAIN HOMEWORK_VERDICTS
    THEN [err |-> <<"ValueError", "unexpected status", homework["status"]>>,
          msg |-> NoneMsg, tracked |-> tracked]
    ELSE IF tracked = homework["status"]
    THEN [err |-> NoErr, msg |-> NoneMsg, tracked |-> tracked]
    ELSE [err |-> NoErr,
          msg |-> <<"Status changed", homework["homework_name"],
                    HOMEWORK_VERDICTS[homework["status"]]>>,
          tracked |-> homework["status"]]

\* line 174: message = f'... {error}'
FailureText(err) == <<"Unknown failure">> \o err

\* response.get('current_date', 0)
GetCurrentDate_zero(d, default) ==
    IF "current_date" \in DOMAIN d THEN d["current_date"] ELSE 0

\* line 171: response.get('current_date', timestamp) on a dict
GetCurrentDate(d, default) ==
    IF "current_date" \in DOMAIN d THEN d["current_date"] ELSE default

(* ------------------------------ state ---------------------------------- *)
VARIABLES
    pc,               \* where main() stands
    tokens,           \* PRACTICUM_TOKEN, TELEGRAM_TOKEN, TELEGRAM_CHAT_ID
    timestamp,        \* main's cursor
    status_homework,  \* the global of line 29
    last_message,     \* main's text of the last failure notified
    response,         \* main's local: the payload of this cycle
    homeworks,        \* main's local: the list check_response returned
    i,                \* position of the for loop of line 160 in homeworks
    error,            \* str() of the exception caught in this cycle, or NoErr
    sink,             \* history: texts of this cycle's bot.send_message calls
    last_ok,          \* history: the latest bot.send_message call returned
    faulted,          \* history: a bot.send_message call of this cycle raised
    last0,            \* history: last_message when this cycle began
    cursor0,          \* history: timestamp when this cycle began
    prev,             \* history: how the cycle before this one went
    served,           \* history: at the fetch, the list the last cycle went through
    replay,           \* history: this cycle's list is the last cycle's list again
    waited            \* history: seconds slept since the last fetch

vars == <<pc, tokens, timestamp, status_homework, last_message, response,
          homeworks, i, error, sink, last_ok, faulted, last0, cursor0, prev,
          served, replay, waited>>

\* line 19
RETRY_PERIOD == 600

TokenNames == {"PRACTICUM_TOKEN", "TELEGRAM_TOKEN", "TELEGRAM_CHAT_ID"}
NoResponse == [type |-> "unbound", truthy |-> FALSE, val |-> <<>>]
NoPrev == [ran |-> FALSE, error |-> NoErr, fails |-> 0, fresh |-> FALSE,
           lost |-> FALSE]

\* sink calls whose text is a failure text / a status text / None
IsFailure(text) == text[1] = "Unknown failure"
IsStatus(text) == text[1] = "Status changed"
FailureCalls == Cardinality({k \in DOMAIN sink : IsFailure(sink[k])})

\* the cycle's last call of the sink carried a failure text and raised
FailureLost == sink # <<>> /\ IsFailure(sink[Len(sink)]) /\ ~last_ok

\* module level (lines 15-29) up to the call of main()
Init ==
    /\ pc = "start"
    /\ tokens \in [TokenNames -> {Unset, "", "token"}]
    /\ timestamp = Unassigned
    /\ status_homework = NoneStatus
    /\ last_message = NoneMsg
    /\ response = NoResponse
    /\ homeworks = <<>>
    /\ i = 0
    /\ error = NoErr
    /\ sink = <<>>
    /\ last_ok = TRUE
    /\ faulted = FALSE
    /\ last0 = NoneMsg
    /\ cursor0 = Unassigned
    /\ prev = NoPrev
    /\ served = <<>>
    /\ replay = FALSE
    /\ waited = 0

(* ----------------------------- actions --------------------------------- *)
\* send_message (lines 57-63): one call of the sink, which delivers (ok) or
\* raises; the exception is caught and logged, nothing else changes
send_message(message, ok) ==
    /\ sink' = Append(sink, message)
    /\ last_ok' = ok
    /\ faulted' = (faulted \/ ~ok)
no_send == UNCHANGED <<sink, last_ok, faulted>>
\* the steps between a fetch and the sleep leave the cycle's history alone
same_cycle == UNCHANGED <<served, replay, waited>>

\* lines 135-146: the credential check, then the locals of main
Startup ==
    /\ pc = "start"
    /\ same_cycle
    /\ IF check_tokens(tokens)
       THEN /\ pc' = "fetch"
            /\ \E now \in Dates : timestamp' = now /\ cursor0' = now
            /\ last_message' = NoneMsg
       ELSE /\ pc' = "exit"
            /\ UNCHANGED <<timestamp, cursor0, last_message>>
    /\ no_send
    /\ UNCHANGED <<tokens, status_homework, response, homeworks, i, error,
                   last0, prev>>

\* line 155, get_api_answer (lines 66-84): a payload, or an APIException
FetchFrom(payloads) ==
    /\ pc = "fetch"
    /\ \/ \E r \in payloads :
            /\ response' = r
            /\ pc' = "validate"
            /\ error' = NoErr
            /\ replay' = /\ served # <<>>
                          /\ r.type = "dict"
                          /\ "homeworks" \in DOMAIN r.val
                          /\ r.val["homeworks"] = [type |-> "list", val |-> served]
       \/ \E e \in FetchErrors :
            /\ error' = e
            /\ pc' = "except"
            /\ replay' = FALSE
            /\ UNCHANGED response
    /\ served' = <<>>
    /\ waited' = 0
    /\ no_send
    /\ UNCHANGED <<tokens, timestamp, status_homework, last_message,
                   homeworks, i, last0, cursor0, prev>>
Fetch == FetchFrom(Payloads)
LiveFetch == FetchFrom(LivePayloads)

\* the validation with the cursor advanced as soon as the payload is
\* accepted, before its records are processed
Validate_advances ==
    /\ pc = "validate"
    /\ same_cycle
    /\ IF response.truthy
       THEN LET r == check_response(response)
            IN  IF r.err # NoErr
                THEN /\ error' = r.err
                     /\ pc' = "except"
                     /\ UNCHANGED <<homeworks, i, timestamp>>
                ELSE /\ homeworks' = r.val
                     /\ i' = 1
                     /\ pc' = IF r.val = <<>> THEN "advance" ELSE "process"
                     /\ timestamp' = GetCurrentDate(response.val, timestamp)
                     /\ UNCHANGED error
       ELSE /\ pc' = "advance"
            /\ UNCHANGED <<homeworks, i, error, timestamp>>
    /\ no_send
    /\ UNCHANGED <<tokens, status_homework, last_message, response,
                   last0, cursor0, prev>>

\* lines 156-159: a truthy response is validated, a falsy one is not
Validate ==
    /\ pc = "validate"
    /\ same_cycle
    /\ IF response.truthy
       THEN LET r == check_response(response)
            IN  IF r.err # NoErr
                THEN /\ error' = r.err
                     /\ pc' = "except"
                     /\ UNCHANGED <<homeworks, i>>
                ELSE /\ homeworks' = r.val
                     /\ i' = 1
                     /\ pc' = IF r.val = <<>> THEN "advance" ELSE "process"
                     /\ UNCHANGED error
       ELSE /\ pc' = "advance"
            /\ UNCHANGED <<homeworks, i, error>>
    /\ no_send
    /\ UNCHANGED <<tokens, timestamp, status_homework, last_message, response,
                   last0, cursor0, prev>>

\* the for loop with a send_message that lets the sink's exception through
ProcessRecord_raises ==
    /\ pc = "process"
    /\ same_cycle
    /\ LET p == parse_status(homeworks[i], status_homework)
       IN  IF p.err # NoErr
           THEN /\ error' = p.err
                /\ pc' = "except"
                /\ status_homework' = p.tracked
                /\ no_send
                /\ UNCHANGED i
           ELSE /\ status_homework' = p.tracked
                /\ \E ok \in BOOLEAN :
                     /\ send_message(p.msg, ok)
                     /\ IF ok
                        THEN /\ i' = i + 1
                             /\ pc' = IF i = Len(homeworks) THEN "advance"
                                                            ELSE "process"
                             /\ UNCHANGED error
                        ELSE /\ error' = <<"ApiTelegramException">>
                             /\ pc' = "except"
                             /\ UNCHANGED i
    /\ UNCHANGED <<tokens, timestamp, last_message, response, homeworks,
                   last0, cursor0, prev>>

\* the for loop with the records taken from the end of the list
ProcessRecord_reversed ==
    /\ pc = "process"
    /\ same_cycle
    /\ LET p == parse_status(homeworks[Len(homeworks) + 1 - i], status_homework)
       IN  IF p.err # NoErr
           THEN /\ error' = p.err
                /\ pc' = "except"
                /\ status_homework' = p.tracked
                /\ no_send
                /\ UNCHANGED i
           ELSE /\ status_homework' = p.tracked
                /\ \E ok \in BOOLEAN : send_message(p.msg, ok)
                /\ i' = i + 1
                /\ pc' = IF i = Len(homeworks) THEN "advance" ELSE "process"
                /\ UNCHANGED error
    /\ UNCHANGED <<tokens, timestamp, last_message, response, homeworks,
                   last0, cursor0, prev>>

\* the for loop with a record that raises logged and skipped
ProcessRecord_skips ==
    /\ pc = "process"
    /\ same_cycle
    /\ LET p == parse_status(homeworks[i], status_homework)
       IN  /\ status_homework' = p.tracked
           /\ IF p.err # NoErr
              THEN no_send
              ELSE \E ok \in BOOLEAN : send_message(p.msg, ok)
           /\ i' = i + 1
           /\ pc' = IF i = Len(homeworks) THEN "advance" ELSE "process"
           /\ UNCHANGED error
    /\ UNCHANGED <<tokens, timestamp, last_message, response, homeworks,
                   last0, cursor0, prev>>

\* lines 160-162: one pass of the for loop
ProcessRecord ==
    /\ pc = "process"
    /\ same_cycle
    /\ LET p == parse_status(homeworks[i], status_homework)
       IN  IF p.err # NoErr
           THEN /\ error' = p.err
                /\ pc' = "except"
                /\ status_homework' = p.tracked
                /\ no_send
                /\ UNCHANGED i
           ELSE /\ status_homework' = p.tracked
                /\ \E ok \in BOOLEAN : send_message(p.msg, ok)
                /\ i' = i + 1
                /\ pc' = IF i = Len(homeworks) THEN "advance" ELSE "process"
                /\ UNCHANGED error
    /\ UNCHANGED <<tokens, timestamp, last_message, response, homeworks,
                   last0, cursor0, prev>>

\* line 171: the cursor takes current_date; a response that is not a dict
\* (None, [], 0) has no get
Advance ==
    /\ pc = "advance"
    /\ same_cycle
    /\ IF response.type = "dict"
       THEN /\ timestamp' = GetCurrentDate(response.val, timestamp)
            /\ pc' = "sleep"
            /\ UNCHANGED error
       ELSE /\ error' = <<"AttributeError", response.type, "has no attribute get">>
            /\ pc' = "except"
            /\ UNCHANGED timestamp
    /\ no_send
    /\ UNCHANGED <<tokens, status_homework, last_message, response, homeworks,
                   i, last0, cursor0, prev>>

\* the handler without the assignment of line 178
HandleError_forgets ==
    /\ pc = "except"
    /\ same_cycle
    /\ LET message == FailureText(error)
       IN  IF message # last_message
           THEN \E ok \in BOOLEAN : send_message(message, ok)
           ELSE no_send
    /\ pc' = "sleep"
    /\ UNCHANGED <<tokens, timestamp, status_homework, last_message, response,
                   homeworks, i, error, last0, cursor0, prev>>

\* the handler with a send_message that lets the sink's exception through:
\* it leaves main
HandleError_raises ==
    /\ pc = "except"
    /\ same_cycle
    /\ LET message == FailureText(error)
       IN  IF message # last_message
           THEN \E ok \in BOOLEAN :
                  /\ send_message(message, ok)
                  /\ last_message' = IF ok THEN message ELSE last_message
                  /\ pc' = IF ok THEN "sleep" ELSE "exit"
           ELSE no_send /\ UNCHANGED last_message /\ pc' = "sleep"
    /\ UNCHANGED <<tokens, timestamp, status_homework, response, homeworks, i,
                   error, last0, cursor0, prev>>

\* the handler with the assignment of line 178 made only when the sink
\* delivered
HandleError_unsent ==
    /\ pc = "except"
    /\ same_cycle
    /\ LET message == FailureText(error)
       IN  IF message # last_message
           THEN \E ok \in BOOLEAN :
                  /\ send_message(message, ok)
                  /\ last_message' = IF ok THEN message ELSE last_message
           ELSE no_send /\ UNCHANGED last_message
    /\ pc' = "sleep"
    /\ UNCHANGED <<tokens, timestamp, status_homework, response, homeworks, i,
                   error, last0, cursor0, prev>>

\* lines 173-178: the failure is notified unless its text is the last one
HandleError ==
    /\ pc = "except"
    /\ same_cycle
    /\ LET message == FailureText(error)
       IN  IF message # last_message
           THEN /\ \E ok \in BOOLEAN : send_message(message, ok)
                /\ last_message' = message
           ELSE no_send /\ UNCHANGED last_message
    /\ pc' = "sleep"
    /\ UNCHANGED <<tokens, timestamp, status_homework, response, homeworks, i,
                   error, last0, cursor0, prev>>

\* time.sleep(secs)
time_sleep(secs) == waited' = waited + secs

\* the end of the cycle with a doubled wait after a failure
Sleep_backoff ==
    /\ pc = "sleep"
    /\ pc' = "fetch"
    /\ prev' = [ran |-> TRUE, error |-> error, fails |-> FailureCalls,
                fresh |-> error # NoErr /\ FailureText(error) # last0,
                lost |-> FailureLost]
    /\ response' = NoResponse
    /\ homeworks' = <<>>
    /\ i' = 0
    /\ error' = NoErr
    /\ sink' = <<>>
    /\ last_ok' = TRUE
    /\ faulted' = FALSE
    /\ last0' = last_message
    /\ cursor0' = timestamp
    /\ served' = homeworks
    /\ replay' = FALSE
    /\ waited' = waited + (IF error # NoErr THEN 2 * RETRY_PERIOD ELSE RETRY_PERIOD)
    /\ UNCHANGED <<tokens, timestamp, status_homework, last_message>>

\* the end of the cycle with last_message reset after a cycle without error
Sleep_resets ==
    /\ pc = "sleep"
    /\ pc' = "fetch"
    /\ prev' = [ran |-> TRUE, error |-> error, fails |-> FailureCalls,
                fresh |-> error # NoErr /\ FailureText(error) # last0,
                lost |-> FailureLost]
    /\ response' = NoResponse
    /\ homeworks' = <<>>
    /\ i' = 0
    /\ error' = NoErr
    /\ sink' = <<>>
    /\ last_ok' = TRUE
    /\ faulted' = FALSE
    /\ last_message' = IF error = NoErr THEN NoneMsg ELSE last_message
    /\ last0' = last_message'
    /\ cursor0' = timestamp
    /\ served' = homeworks
    /\ replay' = FALSE
    /\ time_sleep(RETRY_PERIOD)
    /\ UNCHANGED <<tokens, timestamp, status_homework>>

\* lines 180-182 and back to line 152: the cycle ends.  response and
\* homeworks are assigned before they are read again, so they are cleared.
Sleep ==
    /\ pc = "sleep"
    /\ pc' = "fetch"
    /\ prev' = [ran |-> TRUE, error |-> error, fails |-> FailureCalls,
                fresh |-> error # NoErr /\ FailureText(error) # last0,
                lost |-> FailureLost]
    /\ response' = NoResponse
    /\ homeworks' = <<>>
    /\ i' = 0
    /\ error' = NoErr
    /\ sink' = <<>>
    /\ last_ok' = TRUE
    /\ faulted' = FALSE
    /\ last0' = last_message
    /\ cursor0' = timestamp
    /\ served' = homeworks
    /\ replay' = FALSE
    /\ time_sleep(RETRY_PERIOD)
    /\ UNCHANGED <<tokens, timestamp, status_homework, last_message>>

Next ==
    \/ Startup
    \/ Fetch
    \/ Validate
    \/ ProcessRecord
    \/ Advance
    \/ HandleError
    \/ Sleep

Spec == Init /\ [][Next]_vars

\* Python runs main() statement after statement; only the request of
\* get_api_answer has no deadline and may never return
Run == Startup \/ Validate \/ ProcessRecord \/ Advance \/ HandleError \/ Sleep
LiveNext == LiveFetch \/ Run
FairSpec == Init /\ [][LiveNext]_vars /\ WF_vars(Run)

(* ---------------------- vocabulary of the properties ------------------- *)
\* a record with both fields and one of the three recognized statuses
WellFormed(hw) ==
    /\ DOMAIN hw = {"homework_name", "status"}
    /\ hw["status"] \in {"approved", "reviewing", "rejected"}
\* the record the for loop is at
Current == homeworks[i]
AtRecord == pc = "process"
\* this cycle's payload is a dict with a list under `homeworks`
ValidBatch ==
    /\ response.type = "dict"
    /\ "homeworks" \in DOMAIN response.val
    /\ response.val["homeworks"].type = "list"
\* this cycle's payload is a dict without the key `homeworks`
DictWithoutHomeworks ==
    /\ response.type = "dict"
    /\ "homeworks" \notin DOMAIN response.val
Absent(tok) == tok \in {Unset, ""}
InLoop == pc \in {"fetch", "validate", "process", "advance", "except", "sleep"}

(* ------------------------------- C1 ------------------------------------ *)
\* C1: when the record being processed is well formed and its status equals
\* status_homework, processing it makes no call of the messaging sink.
C1_NoCallWhenUnchanged ==
    [][(AtRecord /\ WellFormed(Current) /\ Current["status"] = status_homework)
        => sink' = sink]_vars

(* ------------------------------- C2 ------------------------------------ *)
\* C2: for a well-formed record parse_status returns a text iff the record's
\* status differs from status_homework at the call, and after the call
\* status_homework is the record's status (so a status repeated in a row gets
\* a text the first time and None each later time).
C2_TextIffChanged ==
    [][(AtRecord /\ WellFormed(Current))
        => /\ Len(sink') = Len(sink) + 1
           /\ (sink'[Len(sink')] # NoneMsg) <=> (Current["status"] # status_homework)
           /\ sink'[Len(sink')] # NoneMsg
                => sink'[Len(sink')] =
                     <<"Status changed", Current["homework_name"],
                       HOMEWORK_VERDICTS[Current["status"]]>>
           /\ status_homework' = Current["status"]]_vars

\* a batch repeated the same status: a text for the first, None for the second
C2_Witness ==
    /\ Len(homeworks) = 2
    /\ Len(sink) = 2
    /\ homeworks[1] = homeworks[2]
    /\ sink[1] # NoneMsg
    /\ sink[2] = NoneMsg

C4_FailureDedup ==
    (pc = "sleep" /\ error # NoErr /\ prev.error # NoErr) =>
        IF error = prev.error
        THEN /\ FailureCalls = 0
             /\ prev.fresh => prev.fails + FailureCalls = 1
        ELSE FailureCalls = 1

\* the second of two failing cycles with one text, the first one notified
C4_Witness ==
    /\ pc = "sleep"
    /\ error # NoErr
    /\ prev.error = error
    /\ prev.fresh
    /\ prev.fails = 1

(* ------------------------------- C5 ------------------------------------ *)
\* C5: whatever fails in a cycle (the fetch, the validation, a record, a
\* delivery), the loop reaches the sleep and from there the next fetch, and
\* once the loop has started main never exits.
CycleFailed == pc = "except" \/ faulted
C5_LoopGoesOn ==
    /\ (InLoop /\ CycleFailed) ~> (pc = "sleep")
    /\ (pc = "sleep") ~> (pc = "fetch")
    /\ [][InLoop => InLoop']_vars

\* a cycle in which a record raised and the delivery of the failure's
\* notification failed too stands at the sleep
C5_Witness ==
    /\ pc = "sleep"
    /\ error # NoErr
    /\ error[1] = "ValueError"
    /\ Len(sink) = 1
    /\ IsFailure(sink[1])
    /\ ~last_ok


(* ------------------------------- C6 ------------------------------------ *)
\* C6: once a payload that is a dict without the key `homeworks` has passed
\* line 156, the cycle is on the error path with the missing-key error of
\* check_response: no record is processed and the cursor is not advanced.
C6_MissingHomeworksFails ==
    (DictWithoutHomeworks /\ pc # "validate") =>
        /\ pc \in {"except", "sleep"}
        /\ error = <<"KeyError", "key homeworks is missing in the API answer">>

C8_BadRecordKeepsTracked ==
    [][(AtRecord /\ ~WellFormed(Current))
        => /\ pc' = "except"
           /\ error' # NoErr
           /\ status_homework' = status_homework
           /\ sink' = sink]_vars

\* an unrecognized status raised while a status was already tracked
C8_Witness ==
    /\ pc = "except"
    /\ error = <<"ValueError", "unexpected status", "archived">>
    /\ status_homework = "reviewing"

(* ------------------------------- C9 ------------------------------------ *)
\* C9: with a credential absent main goes from the start to the exit and
\* nowhere else: no fetch, no call of the sink; with all three present it
\* goes from the start into the loop.
AnyAbsent == \E k \in TokenNames : Absent(tokens[k])
C9_CredentialsGateLoop ==
    /\ [](AnyAbsent => /\ pc \in {"start", "exit"}
                       /\ sink = <<>>
                       /\ response = NoResponse
                       /\ timestamp = Unassigned)
    /\ [][pc = "start" => pc' = IF AnyAbsent THEN "exit" ELSE "fetch"]_vars

\* main exited because exactly one credential was absent
C9_Witness ==
    /\ pc = "exit"
    /\ Cardinality({k \in TokenNames : Absent(tokens[k])}) = 1

(* ------------------------------- C10 ----------------------------------- *)
\* C10: in a cycle on a batch of well-formed records in which a delivery
\* failed, no error is raised, every record before the loop's position made
\* its call of the sink, the loop runs to the end of the batch, and at the
\* sleep the cursor is the payload's current_date (the old cursor if absent).
AllWellFormed == \A k \in DOMAIN homeworks : WellFormed(homeworks[k])
C10_DeliveryFaultContained ==
    (pc \in {"process", "advance", "except", "sleep"} /\ ValidBatch
        /\ AllWellFormed /\ faulted) =>
        /\ pc # "except"
        /\ error = NoErr
        /\ Len(sink) = i - 1
        /\ pc \in {"advance", "sleep"} => i = Len(homeworks) + 1
        /\ pc = "sleep" =>
             timestamp = IF "current_date" \in DOMAIN response.val
                         THEN response.val["current_date"] ELSE cursor0

\* the first of two deliveries failed, the second record was still processed
\* and the cursor moved
C10_Witness ==
    /\ pc = "sleep"
    /\ ValidBatch
    /\ AllWellFormed
    /\ Len(sink) = 2
    /\ faulted
    /\ last_ok
    /\ timestamp # cursor0

(* ------------------------------- C11 ----------------------------------- *)
\* C11: in a cycle whose list is the list the last cycle went through (the
\* same records again, nothing changed at the server), processing a record
\* does not change status_homework and hands no status text to the sink.
C11_NoRepeatOnReplay ==
    [][(AtRecord /\ replay)
        => /\ status_homework' = status_homework
           /\ sink' = sink \/ sink'[Len(sink')] = NoneMsg]_vars

(* ------------------------------- C12 ----------------------------------- *)
\* C12: a failing cycle that follows a cycle completed without error sends a
\* failure notification even when its text is the text notified last before
\* that successful cycle.
C12_NotifiedAgainAfterSuccess ==
    (pc = "sleep" /\ error # NoErr /\ prev.ran /\ prev.error = NoErr
        /\ FailureText(error) = last0)
        => FailureCalls = 1

(* ------------------------------- C13 ----------------------------------- *)
\* C13: the cursor changes only in the step of line 171, taken after the
\* last record of the batch, and a cycle that raised an error (in the fetch,
\* the validation or a record) ends with the cursor it began with.
C13_CursorOnlyAfterBatch ==
    /\ [](pc = "sleep" /\ error # NoErr => timestamp = cursor0)
    /\ [](InLoop /\ pc \notin {"fetch", "sleep"} => timestamp = cursor0)
    /\ [][(InLoop /\ timestamp' # timestamp)
            => /\ pc = "advance"
               /\ error = NoErr
               /\ i = Len(homeworks) + 1 \/ homeworks = <<>>
               /\ pc' = "sleep"]_vars

\* a cycle moved the cursor after two records; and the witness of the error
\* path: a record raised after another was processed, with a current_date
\* other than the cursor in the payload
C13_Witness ==
    /\ pc = "sleep"
    /\ error # NoErr
    /\ ValidBatch
    /\ Len(sink) >= 1
    /\ ~IsFailure(sink[1])
    /\ "current_date" \in DOMAIN response.val
    /\ response.val["current_date"] # cursor0
    /\ timestamp = cursor0

(* ------------------------------- C14 ----------------------------------- *)
\* C14: in a cycle on a batch whose first record that raises is at position
\* k, the loop stops at k with the error caught: the k-1 records before it
\* made their calls of the sink and no later record made one, status_homework
\* is the status of record k-1, and at the sleep the failure was notified
\* once if its text is not the last one notified, not at all otherwise.
FirstBad ==
    CHOOSE k \in DOMAIN homeworks :
        /\ ~WellFormed(homeworks[k])
        /\ \A j \in 1..(k - 1) : WellFormed(homeworks[j])
C14_FieldErrorAborts ==
    (pc \in {"except", "sleep"} /\ ValidBatch /\ ~AllWellFormed) =>
        /\ error # NoErr
        /\ error[1] \in {"KeyError", "ValueError"}
        /\ i = FirstBad
        /\ Len(sink) - FailureCalls = FirstBad - 1
        /\ \A j \in 1..(FirstBad - 1) : ~IsFailure(sink[j])
        /\ FirstBad > 1 => status_homework = homeworks[FirstBad - 1]["status"]
        /\ pc = "sleep" =>
             /\ FailureCalls = IF FailureText(error) # last0 THEN 1 ELSE 0
             /\ last_message = FailureText(error)

\* the second record of a batch raised: the first one's notification and the
\* failure's were sent, and the first one's status is tracked
C14_Witness ==
    /\ pc = "sleep"
    /\ ValidBatch
    /\ Len(homeworks) = 2
    /\ WellFormed(homeworks[1])
    /\ ~WellFormed(homeworks[2])
    /\ Len(sink) = 2
    /\ IsStatus(sink[1])
    /\ IsFailure(sink[2])
    /\ status_homework = homeworks[1]["status"]

(* ------------------------------- C15 ----------------------------------- *)
\* C15: while a batch is processed without error, the call of the sink for
\* record k is the k-th call of the cycle and is made before record k+1 is
\* looked at, status_homework is the status of the record processed last,
\* and at the end of the batch that is the last record of the list.
C15_InOrder ==
    (pc \in {"process", "advance", "sleep"} /\ ValidBatch /\ error = NoErr) =>
        /\ Len(sink) = i - 1
        /\ \A k \in 1..(i - 1) : WellFormed(homeworks[k])
        /\ \A k \in 1..(i - 1) :
             sink[k] \in {NoneMsg,
                          <<"Status changed", homeworks[k]["homework_name"],
                            HOMEWORK_VERDICTS[homeworks[k]["status"]]>>}
        /\ i > 1 => status_homework = homeworks[i - 1]["status"]
        /\ pc \in {"advance", "sleep"} => i = Len(homeworks) + 1

\* a batch of two records with different statuses was processed: the second
\* one's status is tracked
C15_Witness ==
    /\ pc = "sleep"
    /\ ValidBatch
    /\ error = NoErr
    /\ Len(homeworks) = 2
    /\ homeworks[1]["status"] # homeworks[2]["status"]
    /\ IsStatus(sink[1])
    /\ IsStatus(sink[2])
    /\ status_homework = homeworks[2]["status"]

(* ------------------------------- C16 ----------------------------------- *)
\* C16: when a fetch other than the first begins, exactly RETRY_PERIOD
\* seconds were slept since the fetch before it, whatever happened in the
\* cycle between them; inside a cycle nothing was slept yet.
C16_OneSleepPerCycle ==
    /\ [](pc = "fetch" => waited = IF prev.ran THEN RETRY_PERIOD ELSE 0)
    /\ [](InLoop /\ pc # "fetch" => waited = 0)
    /\ [][(pc' = "fetch" /\ pc \notin {"fetch", "start"})
            => pc = "sleep" /\ waited' = waited + RETRY_PERIOD]_vars

\* a fetch is about to begin after a cycle that failed with a text already
\* notified (a repeated failure)
C16_Witness ==
    /\ pc = "fetch"
    /\ prev.ran
    /\ prev.error # NoErr
    /\ ~prev.fresh
    /\ waited = RETRY_PERIOD

(* ------------------------------- C17 ----------------------------------- *)
\* C17: last_message changes only in the handler's step that sends a failure
\* notification, to the text sent; a cycle without error leaves it as it
\* was, and a failing cycle that follows a cycle without error and has the
\* text notified last before it sends no failure notification (failure E,
\* success, failure E: one notification in all).
C17_LastMessageOnlyOnNewText ==
    /\ [][(InLoop /\ last_message' # last_message)
            => /\ pc = "except"
               /\ last_message' = FailureText(error)
               /\ sink' = Append(sink, FailureText(error))]_vars
    /\ [](pc = "sleep" /\ error = NoErr => last_message = last0)
    /\ []((pc = "sleep" /\ error # NoErr /\ prev.ran /\ prev.error = NoErr
            /\ FailureText(error) = last0)
            => /\ FailureCalls = 0
               /\ prev.fails = 0
               /\ last_message = last0)

\* a cycle failed with the text notified before the successful cycle that
\* preceded it
C17_Witness ==
    /\ pc = "sleep"
    /\ error # NoErr
    /\ prev.ran
    /\ prev.error = NoErr
    /\ FailureText(error) = last0
    /\ sink = <<>>

(* ------------------------------- C18 ----------------------------------- *)
\* C18: once a payload that is not a dict has passed line 156, the cycle is
\* on the error path with the not-a-dict error of check_response, no record
\* was processed and the cursor is unchanged.
C18_NonMappingRejected ==
    (response.type \notin {"dict", "unbound"} /\ pc # "validate") =>
        /\ pc \in {"except", "sleep"}
        /\ error = <<"TypeError", "API answer is not a dict">>
        /\ Len(sink) = FailureCalls
        /\ timestamp = cursor0

(* ------------------------------- C19 ----------------------------------- *)
\* C19: a call of the sink that raises leaves the state as a delivered one
\* does: with a status text status_homework is the record's status, with a
\* failure text last_message is that text; and status_homework changes in no
\* other step than the processing of a record.  So the text is not handed to
\* the sink again: not for the next record when it has the same status, not
\* in the next cycle when it fails with the same text.
C19_UpdatedAlthoughUndelivered ==
    /\ [][(sink' # sink /\ ~last_ok') =>
            LET text == sink'[Len(sink')]
            IN  /\ IsStatus(text) =>
                     /\ pc = "process"
                     /\ status_homework' = Current["status"]
                     /\ text[3] = HOMEWORK_VERDICTS[status_homework']
                /\ IsFailure(text) =>
                     /\ pc = "except"
                     /\ last_message' = text]_vars
    /\ [][status_homework' # status_homework => pc = "process"]_vars
    /\ [][(AtRecord /\ i = 2 /\ Len(sink) = 1 /\ IsStatus(sink[1]) /\ faulted
            /\ WellFormed(Current)
            /\ Current["status"] = homeworks[1]["status"])
            => /\ sink' = Append(sink, NoneMsg)
               /\ status_homework' = status_homework]_vars
    /\ []((pc = "sleep" /\ error # NoErr /\ prev.lost /\ prev.error = error)
            => /\ FailureCalls = 0
               /\ last_message = FailureText(error))

\* the failure notification of the last cycle was not delivered and this
\* cycle failed with the same text
C19_Witness ==
    /\ pc = "sleep"
    /\ error # NoErr
    /\ prev.lost
    /\ prev.error = error
    /\ sink = <<>>

====
